---------------------------- MODULE Spec2Model ----------------------------
(* gitcash interactive CLI (src/gitcash/src/main.rs, Command::Cli):        *)
(* the command classifier, the two username validators, the two            *)
(* suggestion providers and the session loop that assembles transactions.  *)
(*                                                                         *)
(* A Rust string is a sequence of one-character strings, so that trim,     *)
(* to_lowercase, contains and parse can be computed character by           *)
(* character.  An f32 is kept as an exact decimal: the binary rounding of  *)
(* f32 lies outside the inputs used here.                                  *)
EXTENDS Integers, Sequences, FiniteSets, TLC

VARIABLES
    usernames,  \* the Arc<Vec<String>> snapshot of user account names
    pc,         \* where the session is: a prompt of the loop, or "Exited"
    target,     \* Some(first input of the running iteration)
    amount,     \* Some(parsed amount of the running iteration)
    submitted,  \* the transactions handed to repo.create_transaction
    out,        \* the lines the last step showed to the operator
    convert_calls, \* how often repo.convert_amount was called
    error,      \* Some(error main returned with)
    event       \* the last call: its name, its input and its result

vars ==
    <<usernames, pc, target, amount, submitted, convert_calls, out, error,
      event>>

-----------------------------------------------------------------------------
(* String literals of the source.                                          *)
str_adduser == <<"a", "d", "d", "u", "s", "e", "r">>
str_help == <<"h", "e", "l", "p">>
str_cash == <<"c", "a", "s", "h">>
str_Invalid_command == <<"I", "n", "v", "a", "l", "i", "d", " ", "c", "o", "m", "m", "a", "n", "d", ":", " ">>
str_Not_known == <<"N", "o", "t", " ", "a", " ", "k", "n", "o", "w", "n", " ", "u", "s", "e", "r", "n", "a", "m", "e", ":", " ">>
str_may_not_be_empty == <<"U", "s", "e", "r", "n", "a", "m", "e", " ", "m", "a", "y", " ", "n", "o", "t", " ", "b", "e", " ", "e", "m", "p", "t", "y">>
str_may_not_contain_space == <<"U", "s", "e", "r", "n", "a", "m", "e", " ", "m", "a", "y", " ", "n", "o", "t", " ", "c", "o", "n", "t", "a", "i", "n", " ", "a", " ", "s", "p", "a", "c", "e">>
str_may_not_contain_colon == <<"U", "s", "e", "r", "n", "a", "m", "e", " ", "m", "a", "y", " ", "n", "o", "t", " ", "c", "o", "n", "t", "a", "i", "n", " ", "a", " ", "c", "o", "l", "o", "n">>
str_already_exists == <<"U", "s", "e", "r", "n", "a", "m", "e", " ", "a", "l", "r", "e", "a", "d", "y", " ", "e", "x", "i", "s", "t", "s", ":", " ">>
str_Adding_user == <<"A", "d", "d", "i", "n", "g", " ", "u", "s", "e", "r">>
str_Create_user == <<"C", "r", "e", "a", "t", "e", " ", "u", "s", "e", "r", " ">>
str_Successfully_added == <<"S", "u", "c", "c", "e", "s", "s", "f", "u", "l", "l", "y", " ", "a", "d", "d", "e", "d", " ", "u", "s", "e", "r", " ">>
str_Help == <<"H", "e", "l", "p">>
str_Invalid_amount == <<"I", "n", "v", "a", "l", "i", "d", " ", "a", "m", "o", "u", "n", "t", ":", " ">>
str_Creating_transaction == <<"C", "r", "e", "a", "t", "i", "n", "g", " ", "t", "r", "a", "n", "s", "a", "c", "t", "i", "o", "n", ":", " ">>
str_pays == <<" ", "p", "a", "y", "s", " ">>
str_CHF == <<" ", "C", "H", "F">>
str_inf == <<"i", "n", "f">>
str_infinity == <<"i", "n", "f", "i", "n", "i", "t", "y">>
str_nan == <<"n", "a", "n">>

(* Operator inputs used by the prompts and the pure-function calls.        *)
in_ADDUSER == <<"A", "D", "D", "U", "S", "E", "R">>
in_AddUser == <<"A", "d", "d", "U", "s", "e", "r">>
in_adduser_sp == <<"a", "d", "d", "u", "s", "e", "r", " ">>
in_sp_adduser_sp == <<" ", "a", "d", "d", "u", "s", "e", "r", " ">>
in_addus == <<"a", "d", "d", "u", "s">>
in_adduserx == <<"a", "d", "d", "u", "s", "e", "r", "x">>
in_HELP == <<"H", "E", "L", "P">>
in_hel == <<"h", "e", "l">>
in_sp_help == <<" ", "h", "e", "l", "p">>
in_xyz == <<"x", "y", "z">>
in_2_50 == <<"2", ".", "5", "0">>
in_sp_2_50_sp == <<" ", "2", ".", "5", "0", " ">>
in_neg1 == <<"-", "1">>
in_1e1 == <<"1", "e", "1">>
in_alice == <<"a", "l", "i", "c", "e">>
in_Alice == <<"A", "l", "i", "c", "e">>
in_alice_sp == <<"a", "l", "i", "c", "e", " ">>
in_bob == <<"b", "o", "b">>
in_Bob == <<"B", "o", "b">>
in_sp_bob == <<" ", "b", "o", "b">>
in_Nicole == <<"N", "i", "c", "o", "l", "e">>
in_ic == <<"i", "c">>
in_IC == <<"I", "C">>
in_al_ice == <<"a", "l", " ", "i", "c", "e">>
in_ali_ce == <<"a", "l", "i", ":", "c", "e">>
in_a_sp_colon == <<"a", " ", ":", "b">>

-----------------------------------------------------------------------------
(* Bounds of the model.                                                    *)
MaxLen == 3
MaxTx == 2

(* Characters from which the exhaustive inputs are built.                  *)
Alphabet == {"a", "A", "b", " ", ":", "\t"}

BoundedStrings == UNION {[1..k -> Alphabet] : k \in 0..MaxLen}

-----------------------------------------------------------------------------
(* str methods of the Rust standard library, as far as main.rs uses them.  *)
UpperCase == <<"A", "B", "C", "D", "E", "F", "G", "H", "I", "J", "K", "L", "M",
               "N", "O", "P", "Q", "R", "S", "T", "U", "V", "W", "X", "Y", "Z">>
LowerCase == <<"a", "b", "c", "d", "e", "f", "g", "h", "i", "j", "k", "l", "m",
               "n", "o", "p", "q", "r", "s", "t", "u", "v", "w", "x", "y", "z">>

to_lowercase_char(c) ==
    IF \E i \in 1..26 : UpperCase[i] = c
    THEN LowerCase[CHOOSE i \in 1..26 : UpperCase[i] = c]
    ELSE c

to_lowercase(s) == [i \in 1..Len(s) |-> to_lowercase_char(s[i])]

contains(haystack, needle) ==
    \E i \in 0..(Len(haystack) - Len(needle)) :
        SubSeq(haystack, i + 1, i + Len(needle)) = needle

contains_char(s, c) == \E i \in 1..Len(s) : s[i] = c

WhiteSpace == {" ", "\t"}

RECURSIVE trim_start(_)
trim_start(s) ==
    IF s # <<>> /\ Head(s) \in WhiteSpace THEN trim_start(Tail(s)) ELSE s

RECURSIVE trim_end(_)
trim_end(s) ==
    IF s # <<>> /\ s[Len(s)] \in WhiteSpace
    THEN trim_end(SubSeq(s, 1, Len(s) - 1))
    ELSE s

trim(s) == trim_end(trim_start(s))

Ok(x) == <<"Ok", x>>
Err(e) == <<"Err", e>>
IsOk(r) == r[1] = "Ok"
None == <<>>
Some(x) == <<x>>

-----------------------------------------------------------------------------
(* CliCommand and its conversions.                                         *)
CliCommand == {"AddUser", "Help"}

into(command) ==
    CASE command = "AddUser" -> str_adduser
      [] command = "Help" -> str_help

(* try_from with the to_lowercase() call left out.                         *)
try_from_case_sensitive(value) ==
    CASE value = str_adduser -> Ok("AddUser")
      [] value = str_help -> Ok("Help")
      [] OTHER -> Err(str_Invalid_command \o value)

try_from(value) ==
    LET lowered == to_lowercase(value)
    IN  CASE lowered = str_adduser -> Ok("AddUser")
          [] lowered = str_help -> Ok("Help")
          [] OTHER -> Err(str_Invalid_command \o lowered)

(* let commands = [CliCommand::AddUser, CliCommand::Help]                  *)
commands == <<"AddUser", "Help">>

(* CommandSuggester::new: the canonical keyword of every command.          *)
CommandSuggester_new(cmds) == [i \in 1..Len(cmds) |-> into(cmds[i])]

(* The filter comparing the candidates with the input as typed.            *)
RECURSIVE filter_contains_case_sensitive(_, _)
filter_contains_case_sensitive(candidates, input) ==
    IF candidates = <<>> THEN <<>>
    ELSE LET rest == filter_contains_case_sensitive(Tail(candidates), input)
         IN  IF contains(to_lowercase(Head(candidates)), input)
             THEN <<Head(candidates)>> \o rest
             ELSE rest

(* The filter returning the lowercase form it compared.                    *)
RECURSIVE filter_contains_lowercased(_, _)
filter_contains_lowercased(candidates, input) ==
    IF candidates = <<>> THEN <<>>
    ELSE LET rest == filter_contains_lowercased(Tail(candidates), input)
         IN  IF contains(to_lowercase(Head(candidates)), to_lowercase(input))
             THEN <<to_lowercase(Head(candidates))>> \o rest
             ELSE rest

(* iter().filter(|acc| acc.to_lowercase().contains(&input.to_lowercase())) *)
RECURSIVE filter_contains(_, _)
filter_contains(candidates, input) ==
    IF candidates = <<>> THEN <<>>
    ELSE LET rest == filter_contains(Tail(candidates), input)
         IN  IF contains(to_lowercase(Head(candidates)), to_lowercase(input))
             THEN <<Head(candidates)>> \o rest
             ELSE rest

get_suggestions(input) ==
    Ok(filter_contains(CommandSuggester_new(commands), input))

-----------------------------------------------------------------------------
(* The closures over the usernames snapshot.                               *)
Valid == <<"Valid">>
Invalid(message) == <<"Invalid", message>>

existing_username_validator(value) ==
    Ok(IF \E i \in 1..Len(usernames) : usernames[i] = value
       THEN Valid
       ELSE Invalid(str_Not_known \o value))

(* The validator with the colon check placed before the space check.      *)
new_username_validator_colon_first(raw) ==
    LET value == trim(raw)
    IN  Ok(IF value = <<>> THEN Invalid(str_may_not_be_empty)
           ELSE IF contains_char(value, ":")
                THEN Invalid(str_may_not_contain_colon)
           ELSE IF contains_char(value, " ")
                THEN Invalid(str_may_not_contain_space)
           ELSE IF \E i \in 1..Len(usernames) : usernames[i] = value
                THEN Invalid(str_already_exists \o value)
           ELSE Valid)

new_username_validator(raw) ==
    LET value == trim(raw)
    IN  Ok(IF value = <<>> THEN Invalid(str_may_not_be_empty)
           ELSE IF contains_char(value, " ")
                THEN Invalid(str_may_not_contain_space)
           ELSE IF contains_char(value, ":")
                THEN Invalid(str_may_not_contain_colon)
           ELSE IF \E i \in 1..Len(usernames) : usernames[i] = value
                THEN Invalid(str_already_exists \o value)
           ELSE Valid)

name_suggester(val) == Ok(filter_contains(usernames, val))

-----------------------------------------------------------------------------
(* target.parse::<f32>(): Sign? ('inf' | 'infinity' | 'nan' | Number),     *)
(* Number = (Digit+ | Digit+ '.' Digit* | Digit* '.' Digit+) Exp?,         *)
(* Exp = 'e' Sign? Digit+.  No surrounding white space is accepted.        *)
(* A finite value is neg, m, s standing for (-1)^neg * m / 10^s, with no   *)
(* trailing zero kept in the fraction.                                     *)
Digits == <<"0", "1", "2", "3", "4", "5", "6", "7", "8", "9">>

IsDigit(c) == \E i \in 1..10 : Digits[i] = c

DigitVal(c) == (CHOOSE i \in 1..10 : Digits[i] = c) - 1

AllDigits(s) == \A i \in 1..Len(s) : IsDigit(s[i])

RECURSIVE DigitsVal(_)
DigitsVal(s) ==
    IF s = <<>> THEN 0
    ELSE DigitsVal(SubSeq(s, 1, Len(s) - 1)) * 10 + DigitVal(s[Len(s)])

RECURSIVE Pow10(_)
Pow10(n) == IF n <= 0 THEN 1 ELSE 10 * Pow10(n - 1)

RECURSIVE Normalize(_)
Normalize(v) ==
    IF v.m = 0 THEN [v EXCEPT !.s = 0]
    ELSE IF v.s > 0 /\ v.m % 10 = 0
         THEN Normalize([v EXCEPT !.m = v.m \div 10, !.s = v.s - 1])
         ELSE v

HasSign(s) == s # <<>> /\ Head(s) \in {"+", "-"}

Unsigned(s) == IF HasSign(s) THEN Tail(s) ELSE s

FirstIndex(s, chars) ==
    IF \E i \in 1..Len(s) : s[i] \in chars
    THEN CHOOSE i \in 1..Len(s) :
             s[i] \in chars /\ \A j \in 1..(i - 1) : s[j] \notin chars
    ELSE 0

parse_f32(s) ==
    LET neg == s # <<>> /\ Head(s) = "-"
        body == Unsigned(s)
        e == FirstIndex(body, {"e", "E"})
        mant == IF e = 0 THEN body ELSE SubSeq(body, 1, e - 1)
        exp == IF e = 0 THEN <<>> ELSE SubSeq(body, e + 1, Len(body))
        expDigits == Unsigned(exp)
        d == FirstIndex(mant, {"."})
        int == IF d = 0 THEN mant ELSE SubSeq(mant, 1, d - 1)
        frac == IF d = 0 THEN <<>> ELSE SubSeq(mant, d + 1, Len(mant))
        mantOk == AllDigits(int) /\ AllDigits(frac) /\ Len(int) + Len(frac) > 0
        expOk == e = 0 \/ (expDigits # <<>> /\ AllDigits(expDigits))
        expVal == IF e = 0 THEN 0
                  ELSE IF exp # <<>> /\ Head(exp) = "-"
                       THEN 0 - DigitsVal(expDigits)
                       ELSE DigitsVal(expDigits)
        shift == Len(frac) - expVal
    IN  IF to_lowercase(body) \in {str_inf, str_infinity}
        THEN Ok([kind |-> "inf", neg |-> neg, m |-> 0, s |-> 0])
        ELSE IF to_lowercase(body) = str_nan
        THEN Ok([kind |-> "nan", neg |-> neg, m |-> 0, s |-> 0])
        ELSE IF mantOk /\ expOk
        THEN Ok(Normalize([kind |-> "num", neg |-> neg,
                           m |-> DigitsVal(int \o frac) * Pow10(0 - shift),
                           s |-> IF shift > 0 THEN shift ELSE 0]))
        ELSE Err("ParseFloatError")

-----------------------------------------------------------------------------
(* The ledger library (libgitcash), known here only through its calls.     *)

(* repo.convert_amount: the amount in minor units, rounded to the nearest. *)
I32Max == 2147483647
I32Min == (0 - I32Max) - 1

Saturate(n) == IF n > I32Max THEN I32Max ELSE IF n < I32Min THEN I32Min ELSE n

convert_amount(v) ==
    LET d == Pow10(v.s - 2)
        q == IF v.s <= 2 THEN v.m * Pow10(2 - v.s)
             ELSE (v.m \div d) + (IF 2 * (v.m % d) >= d THEN 1 ELSE 0)
    IN  CASE v.kind = "nan" -> 0
          [] v.kind = "inf" -> IF v.neg THEN I32Min ELSE I32Max
          [] OTHER -> Saturate(IF v.neg THEN 0 - q ELSE q)

(* Account::source and Account::user reject a structurally invalid name.   *)
Account_new(account_type, name) ==
    IF name = <<>> THEN Err("ValidationError")
    ELSE Ok([account_type |-> account_type, name |-> name])

Account_source(name) == Account_new("Source", name)

Account_user(name) == Account_new("User", name)

(* config.account: the configured default target account.                 *)
config_account == [account_type |-> "PointOfSale", name |-> <<"p", "o", "s">>]

-----------------------------------------------------------------------------
(* println!("... {:.2} CHF", amount): the amount with two decimals.        *)
RECURSIVE int_to_str(_)
int_to_str(n) ==
    IF n < 10 THEN <<Digits[n + 1]>>
    ELSE int_to_str(n \div 10) \o <<Digits[(n % 10) + 1]>>

fmt_2(v) ==
    LET d == Pow10(v.s - 2)
        q == v.m \div d
        r == v.m % d
        c == IF v.s <= 2 THEN v.m * Pow10(2 - v.s)
             ELSE IF 2 * r > d \/ (2 * r = d /\ q % 2 = 1) THEN q + 1 ELSE q
        sign == IF v.neg THEN <<"-">> ELSE <<>>
    IN  CASE v.kind = "nan" -> <<"N", "a", "N">>
          [] v.kind = "inf" -> sign \o str_inf
          [] OTHER -> sign \o int_to_str(c \div 100) \o <<".">>
                      \o <<Digits[((c \div 10) % 10) + 1], Digits[(c % 10) + 1]>>

-----------------------------------------------------------------------------
(* Inputs.                                                                 *)
UsernameSnapshots ==
    { <<>>,
      << <<"a">> >>,
      << <<"A", "b">>, <<"b">>, <<"a", "B">> >>,
      <<in_alice>>,
      <<in_Alice, in_Bob, in_Nicole>> }

CuratedStrings ==
    { str_adduser, in_ADDUSER, in_AddUser, in_adduser_sp, in_sp_adduser_sp,
      in_addus, in_adduserx, str_help, in_HELP, in_hel, in_sp_help,
      in_xyz, in_2_50, in_sp_2_50_sp,
      in_alice, in_Alice, in_alice_sp, in_bob, in_Bob, in_sp_bob, in_Nicole,
      in_ic, in_IC, in_al_ice, in_ali_ce, in_a_sp_colon }

FnInputs == BoundedStrings \cup CuratedStrings

SessionSnapshots == { <<>>, <<in_alice>>, <<in_Alice, in_Bob, in_Nicole>> }

FirstInputs ==
    { str_adduser, in_ADDUSER, in_adduser_sp, in_sp_adduser_sp, str_help,
      in_xyz, in_2_50, in_sp_2_50_sp, in_neg1, in_1e1, <<>> }

NameInputs ==
    { <<>>, <<" ">>, in_alice, in_alice_sp, in_bob, in_sp_bob, in_ali_ce,
      in_a_sp_colon }

PartialInputs == { <<>>, in_ic, in_IC, in_bob }

-----------------------------------------------------------------------------
(* The state when the loop of Command::Cli is entered.                     *)
Init ==
    /\ usernames \in SessionSnapshots
    /\ pc = "AwaitingFirstInput"
    /\ target = None
    /\ amount = None
    /\ submitted = <<>>
    /\ convert_calls = 0
    /\ out = <<>>
    /\ error = None
    /\ event = [op |-> "start", input |-> <<>>, result |-> <<>>]

Call(op, input, result) == [op |-> op, input |-> input, result |-> result]

(* `?` on an Err: main returns the error and the loop is left.             *)
Exit(e) ==
    /\ pc' = "Exited"
    /\ error' = Some(e)
    /\ UNCHANGED <<usernames, target, amount>>

(* The end of the loop body, or `continue`: the bindings of the iteration  *)
(* are dropped and the first prompt is shown again.                        *)
NextIteration ==
    /\ pc' = "AwaitingFirstInput"
    /\ target' = None
    /\ amount' = None
    /\ UNCHANGED <<usernames, error>>

(* A validator answered Invalid, and the iteration is given up.            *)
Reprompt_restart(validation) ==
    /\ out' = <<validation[2][2]>>
    /\ NextIteration
    /\ UNCHANGED <<submitted, convert_calls>>

(* A validator answered Invalid: the prompt shows the message and stays.   *)
Reprompt(validation) ==
    /\ out' = <<validation[2][2]>>
    /\ UNCHANGED <<usernames, pc, target, amount, submitted, convert_calls,
                   error>>

(* The add-user Transaction with its two accounts exchanged.               *)
create_user_transaction_swapped(from, to, description) ==
    [from |-> to, to |-> from, amount |-> 0,
     description |-> Some(description), meta |-> None]

(* The Transaction of the add-user branch.                                 *)
create_user_transaction(from, to, description) ==
    [from |-> from, to |-> to, amount |-> 0,
     description |-> Some(description), meta |-> None]

(* The payment Transaction with its two accounts exchanged.                *)
payment_transaction_swapped(from, value) ==
    [from |-> config_account, to |-> from, amount |-> convert_amount(value),
     description |-> None, meta |-> None]

(* The Transaction of the amount branch.                                   *)
payment_transaction(from, value) ==
    [from |-> from, to |-> config_account, amount |-> convert_amount(value),
     description |-> None, meta |-> None]

(* The transaction handed to the ledger a second time.                     *)
create_transaction_twice(transaction, ok) ==
    submitted' = Append(Append(submitted,
                               [transaction |-> transaction, ok |-> ok]),
                        [transaction |-> transaction, ok |-> ok])

(* repo.create_transaction(&transaction), the ledger answering ok or not.  *)
create_transaction(transaction, ok) ==
    submitted' = Append(submitted, [transaction |-> transaction, ok |-> ok])

(* The error of create_transaction reported, and the loop continued.       *)
create_transaction_failed_continue == NextIteration

(* `?` on what create_transaction returned.                                *)
create_transaction_failed == Exit("create_transaction")

(* convert_amount called for the message and again for the Transaction.    *)
call_convert_amount_twice == convert_calls' = convert_calls + 2

(* amount: repo.convert_amount(amount), one call.                          *)
call_convert_amount == convert_calls' = convert_calls + 1

(* The help branch without its `continue`: "help" goes on to the parse.    *)
HelpBranch_no_continue(input) ==
    /\ out' = <<str_Help>>
    /\ IF IsOk(parse_f32(input))
       THEN /\ pc' = "CounterpartyName"
            /\ target' = Some(input)
            /\ amount' = Some(parse_f32(input)[2])
            /\ UNCHANGED <<usernames, error>>
       ELSE /\ pc' = "Exited"
            /\ error' = Some(str_Invalid_amount \o input)
            /\ target' = Some(input)
            /\ UNCHANGED <<usernames, amount>>

(* Ok(CliCommand::Help) => { println!("Help"); continue; }                 *)
HelpBranch(input) ==
    /\ out' = <<str_Help>>
    /\ NextIteration

(* The add-user branch refreshing the snapshot with the new name.          *)
AddUserDone_refresh(new_name) ==
    /\ out' = <<str_Successfully_added \o new_name>>
    /\ pc' = "AwaitingFirstInput"
    /\ target' = None
    /\ amount' = None
    /\ usernames' = Append(usernames, new_name)
    /\ UNCHANGED error

(* println!("Successfully added user {}", new_name); continue;             *)
AddUserDone(new_name) ==
    /\ out' = <<str_Successfully_added \o new_name>>
    /\ NextIteration

(* Text::prompt()? when the prompt layer fails (input closed, interrupt).  *)
PromptFailed ==
    /\ pc \in {"AwaitingFirstInput", "AddUserName", "CounterpartyName"}
    /\ Exit("InquireError")
    /\ out' = <<>>
    /\ event' = Call("prompt", <<>>, Err("InquireError"))
    /\ UNCHANGED <<submitted, convert_calls>>

(* The first prompt with the amount parse tried before the command match.  *)
FirstPrompt_amount_first(input) ==
    /\ pc = "AwaitingFirstInput"
    /\ Len(submitted) < MaxTx
    /\ LET command == try_from(input)
           parsed == parse_f32(input)
       IN  /\ event' = Call("first_prompt", input, command)
           /\ IF IsOk(parsed)
              THEN /\ pc' = "CounterpartyName"
                   /\ target' = Some(input)
                   /\ amount' = Some(parsed[2])
                   /\ out' = <<>>
                   /\ UNCHANGED <<usernames, error>>
              ELSE /\ pc' = "Exited"
                   /\ error' = Some(str_Invalid_amount \o input)
                   /\ target' = Some(input)
                   /\ out' = <<>>
                   /\ UNCHANGED <<usernames, amount>>
    /\ UNCHANGED <<submitted, convert_calls>>

(* The first prompt returns `input`: classify it, then branch.             *)
FirstPrompt(input) ==
    /\ pc = "AwaitingFirstInput"
    /\ Len(submitted) < MaxTx
    /\ LET command == try_from(input)
           parsed == parse_f32(input)
       IN  /\ event' = Call("first_prompt", input, command)
           /\ CASE command = Ok("AddUser") ->
                     /\ out' = <<str_Adding_user>>
                     /\ pc' = "AddUserName"
                     /\ target' = Some(input)
                     /\ UNCHANGED <<usernames, amount, error>>
                [] command = Ok("Help") -> HelpBranch(input)
                [] OTHER ->
                     IF IsOk(parsed)
                     THEN /\ pc' = "CounterpartyName"
                          /\ target' = Some(input)
                          /\ amount' = Some(parsed[2])
                          /\ out' = <<>>
                          /\ UNCHANGED <<usernames, error>>
                     ELSE /\ pc' = "Exited"
                          /\ error' = Some(str_Invalid_amount \o input)
                          /\ target' = Some(input)
                          /\ out' = <<>>
                          /\ UNCHANGED <<usernames, amount>>
    /\ UNCHANGED <<submitted, convert_calls>>

(* The operator edits the first prompt: the command suggestions.           *)
FirstPromptSuggest(input) ==
    /\ pc = "AwaitingFirstInput"
    /\ event' = Call("get_suggestions", input, get_suggestions(input))
    /\ out' = get_suggestions(input)[2]
    /\ UNCHANGED <<usernames, pc, target, amount, submitted, convert_calls,
                   error>>

(* "Name:" of the add-user branch gets `input`.                            *)
AddUserPrompt(input) ==
    /\ pc = "AddUserName"
    /\ LET validation == new_username_validator(input)
           new_name == input
           description == str_Create_user \o new_name
           from == Account_source(str_cash)
           to == Account_user(new_name)
       IN  /\ event' = Call("new_username_validator", input, validation)
           /\ IF validation # Ok(Valid)
              THEN Reprompt(validation)
              ELSE IF ~IsOk(from) \/ ~IsOk(to)
              THEN /\ Exit("ValidationError")
                   /\ out' = <<>>
                   /\ UNCHANGED <<submitted, convert_calls>>
              ELSE \E ok \in BOOLEAN :
                     /\ create_transaction(
                            create_user_transaction(from[2], to[2],
                                                    description), ok)
                     /\ UNCHANGED convert_calls
                     /\ IF ok
                        THEN AddUserDone(new_name)
                        ELSE /\ create_transaction_failed
                             /\ out' = <<>>

(* The operator edits "Name:" of the amount branch: the name suggestions.  *)
CounterpartySuggest(input) ==
    /\ pc = "CounterpartyName"
    /\ event' = Call("name_suggester", input, name_suggester(input))
    /\ out' = name_suggester(input)[2]
    /\ UNCHANGED <<usernames, pc, target, amount, submitted, convert_calls,
                   error>>

(* "Name:" of the amount branch gets `input`.                              *)
CounterpartyPrompt(input) ==
    /\ pc = "CounterpartyName"
    /\ LET validation == existing_username_validator(input)
           name == input
           from == Account_user(name)
       IN  /\ event' = Call("existing_username_validator", input, validation)
           /\ IF validation # Ok(Valid)
              THEN Reprompt(validation)
              ELSE /\ out' = <<str_Creating_transaction \o name \o str_pays
                               \o fmt_2(amount[1]) \o str_CHF>>
                   /\ IF ~IsOk(from)
                      THEN /\ Exit("ValidationError")
                           /\ UNCHANGED <<submitted, convert_calls>>
                      ELSE \E ok \in BOOLEAN :
                             /\ call_convert_amount
                             /\ create_transaction(
                                    payment_transaction(from[2], amount[1]),
                                    ok)
                             /\ IF ok
                                THEN NextIteration
                                ELSE create_transaction_failed

Next ==
    \/ \E input \in FirstInputs : FirstPrompt(input)
    \/ \E input \in PartialInputs : FirstPromptSuggest(input)
    \/ \E input \in NameInputs : AddUserPrompt(input)
    \/ \E input \in PartialInputs : CounterpartySuggest(input)
    \/ \E input \in NameInputs : CounterpartyPrompt(input)
    \/ PromptFailed

Spec == Init /\ [][Next]_vars

-----------------------------------------------------------------------------
(* The pure functions applied once, to every input of FnInputs and every   *)
(* snapshot: they keep no state between calls.                             *)
InitFn ==
    /\ usernames \in UsernameSnapshots
    /\ pc = "AwaitingFirstInput"
    /\ target = None
    /\ amount = None
    /\ submitted = <<>>
    /\ convert_calls = 0
    /\ out = <<>>
    /\ error = None
    /\ event = [op |-> "start", input |-> <<>>, result |-> <<>>]

CallTryFrom(value) ==
    /\ event.op = "start"
    /\ event' = Call("try_from", value, try_from(value))
    /\ UNCHANGED <<usernames, pc, target, amount, submitted, convert_calls, out,
                   error>>

CallExistingUsernameValidator(value) ==
    /\ event.op = "start"
    /\ event' = Call("existing_username_validator", value,
                     existing_username_validator(value))
    /\ UNCHANGED <<usernames, pc, target, amount, submitted, convert_calls, out,
                   error>>

CallNewUsernameValidator(value) ==
    /\ event.op = "start"
    /\ event' = Call("new_username_validator", value,
                     new_username_validator(value))
    /\ UNCHANGED <<usernames, pc, target, amount, submitted, convert_calls, out,
                   error>>

CallGetSuggestions(input) ==
    /\ event.op = "start"
    /\ event' = Call("get_suggestions", input, get_suggestions(input))
    /\ UNCHANGED <<usernames, pc, target, amount, submitted, convert_calls, out,
                   error>>

CallNameSuggester(val) ==
    /\ event.op = "start"
    /\ event' = Call("name_suggester", val, name_suggester(val))
    /\ UNCHANGED <<usernames, pc, target, amount, submitted, convert_calls, out,
                   error>>

NextFn ==
    \/ \E value \in FnInputs : CallTryFrom(value)
    \/ \E value \in FnInputs : CallExistingUsernameValidator(value)
    \/ \E value \in FnInputs : CallNewUsernameValidator(value)
    \/ \E input \in FnInputs : CallGetSuggestions(input)
    \/ \E val \in FnInputs : CallNameSuggester(val)

SpecFn == InitFn /\ [][NextFn]_vars

-----------------------------------------------------------------------------
(* C1: a first input that is no command and does not parse as a number is  *)
(* recoverable: nothing is submitted, convert_amount is not called, the    *)
(* session is not ended and the first prompt is shown again.               *)
InvalidAmountIsRecoverable ==
    [][(/\ event'.op = "first_prompt"
        /\ ~IsOk(event'.result)
        /\ ~IsOk(parse_f32(event'.input)))
       => /\ submitted' = submitted
          /\ convert_calls' = convert_calls
          /\ pc' = "AwaitingFirstInput"
          /\ error' = None]_vars

(* C2: a first input that is no command and parses as a number leads to    *)
(* the counterparty prompt; a name the existing-username validator accepts *)
(* there submits exactly one transaction from User(name), name an entry of *)
(* the snapshot, to the configured account, of convert_amount(amount),     *)
(* without description or meta; after a successful submission the first    *)
(* prompt is shown again.                                                  *)
AmountBranchSubmitsPayment ==
    /\ [](pc = "CounterpartyName" =>
            /\ target # None
            /\ ~IsOk(try_from(target[1]))
            /\ amount = Some(parse_f32(target[1])[2])
            /\ (target = Some(in_2_50) =>
                  amount = Some([kind |-> "num", neg |-> FALSE,
                                 m |-> 25, s |-> 1])))
    /\ [][/\ (/\ event'.op = "first_prompt"
              /\ ~IsOk(event'.result)
              /\ IsOk(parse_f32(event'.input)))
             => /\ pc' = "CounterpartyName"
                /\ target' = Some(event'.input)
                /\ submitted' = submitted
          /\ (/\ pc = "CounterpartyName"
              /\ event'.op = "existing_username_validator"
              /\ event'.result = Ok(Valid))
             => /\ Len(submitted') = Len(submitted) + 1
                /\ SubSeq(submitted', 1, Len(submitted)) = submitted
                /\ \E i \in 1..Len(usernames) : usernames[i] = event'.input
                /\ submitted'[Len(submitted')].transaction =
                       [from |-> [account_type |-> "User",
                                  name |-> event'.input],
                        to |-> config_account,
                        amount |-> convert_amount(amount[1]),
                        description |-> None,
                        meta |-> None]
                /\ (target = Some(in_2_50) =>
                       submitted'[Len(submitted')].transaction.amount = 250)
                /\ convert_calls' = convert_calls + 1
                /\ (submitted'[Len(submitted')].ok
                       => pc' = "AwaitingFirstInput" /\ error' = None)]_vars

AmountBranchSubmitsPaymentWitness ==
    /\ event.op = "existing_username_validator"
    /\ event.input = in_alice
    /\ event.result = Ok(Valid)
    /\ pc = "AwaitingFirstInput"
    /\ submitted # <<>>
    /\ submitted[Len(submitted)].ok
    /\ submitted[Len(submitted)].transaction.from =
           [account_type |-> "User", name |-> in_alice]
    /\ submitted[Len(submitted)].transaction.amount = 250

(* C3: the adduser command leads to the new-name prompt; a name the        *)
(* new-username validator accepts there submits exactly one transaction    *)
(* from Source("cash") to User(name) of amount 0, described as             *)
(* "Create user {name}", without meta; on success the message naming the   *)
(* name is shown and the first prompt follows, the amount branch not       *)
(* being entered.                                                          *)
AddUserBranchSubmitsCreation ==
    [][/\ (event'.op = "first_prompt" /\ event'.result = Ok("AddUser"))
          => /\ pc' = "AddUserName"
             /\ submitted' = submitted
             /\ convert_calls' = convert_calls
       /\ (/\ pc = "AddUserName"
           /\ event'.op = "new_username_validator"
           /\ event'.result = Ok(Valid))
          => /\ Len(submitted') = Len(submitted) + 1
             /\ SubSeq(submitted', 1, Len(submitted)) = submitted
             /\ submitted'[Len(submitted')].transaction =
                    [from |-> [account_type |-> "Source", name |-> str_cash],
                     to |-> [account_type |-> "User", name |-> event'.input],
                     amount |-> 0,
                     description |-> Some(str_Create_user \o event'.input),
                     meta |-> None]
             /\ convert_calls' = convert_calls
             /\ pc' # "CounterpartyName"
             /\ amount' = amount
             /\ (submitted'[Len(submitted')].ok
                    => /\ out' = <<str_Successfully_added \o event'.input>>
                       /\ pc' = "AwaitingFirstInput"
                       /\ error' = None)]_vars

AddUserBranchSubmitsCreationWitness ==
    /\ event.op = "new_username_validator"
    /\ event.input = in_bob
    /\ event.result = Ok(Valid)
    /\ pc = "AwaitingFirstInput"
    /\ out = <<str_Successfully_added \o in_bob>>
    /\ submitted # <<>>
    /\ submitted[Len(submitted)].ok
    /\ submitted[Len(submitted)].transaction.to =
           [account_type |-> "User", name |-> in_bob]

(* C4: the classifier returns command c exactly when the input equals the  *)
(* keyword of c up to the case of its letters; "ADDUSER", "AddUser" and    *)
(* "adduser" classify alike; a prefix, a superstring or a keyword with     *)
(* white space around it is no command.                                    *)
ClassifierIsExactIgnoringCase ==
    event.op = "try_from" =>
        LET SameIgnoringCase(s, k) ==
                /\ Len(s) = Len(k)
                /\ \A i \in 1..Len(k) :
                      \/ s[i] = k[i]
                      \/ \E j \in 1..26 :
                            LowerCase[j] = k[i] /\ UpperCase[j] = s[i]
        IN  /\ \A c \in CliCommand :
                  event.result = Ok(c) <=> SameIgnoringCase(event.input, into(c))
            /\ (\A c \in CliCommand : ~SameIgnoringCase(event.input, into(c)))
                  => ~IsOk(event.result)
            /\ event.input \in {str_adduser, in_ADDUSER, in_AddUser}
                  => event.result = Ok("AddUser")
            /\ event.input \in {str_help, in_HELP} => event.result = Ok("Help")
            /\ event.input \in {in_adduser_sp, in_sp_adduser_sp, in_addus,
                                in_adduserx, in_hel, in_sp_help}
                  => ~IsOk(event.result)

ClassifierIsExactIgnoringCaseWitness ==
    /\ event.op = "try_from"
    /\ event.input = in_ADDUSER
    /\ event.result = Ok("AddUser")

(* C5: the existing-username validator answers Valid exactly when the      *)
(* trimmed input equals an entry of the snapshot, and otherwise Invalid    *)
(* with "Not a known username: {input}".                                   *)
ExistingValidatorTrimsInput ==
    event.op = "existing_username_validator" =>
        LET known == \E i \in 1..Len(usernames) :
                         usernames[i] = trim(event.input)
        IN  /\ event.result = Ok(Valid) <=> known
            /\ ~known =>
                  event.result = Ok(Invalid(str_Not_known \o event.input))

(* C6: the new-username validator checks the trimmed input for being       *)
(* empty, holding a space, holding a colon and being in the snapshot, in   *)
(* this order, and answers with the reason of the first check that fails,  *)
(* or Valid when none fails.                                               *)
NewValidatorReportsFirstFailure ==
    event.op = "new_username_validator" =>
        LET value == trim(event.input)
            empty == Len(value) = 0
            space == \E i \in 1..Len(value) : value[i] = " "
            colon == \E i \in 1..Len(value) : value[i] = ":"
            exists == \E i \in 1..Len(usernames) : usernames[i] = value
        IN  /\ empty => event.result = Ok(Invalid(str_may_not_be_empty))
            /\ (~empty /\ space)
                  => event.result = Ok(Invalid(str_may_not_contain_space))
            /\ (~empty /\ ~space /\ colon)
                  => event.result = Ok(Invalid(str_may_not_contain_colon))
            /\ (~empty /\ ~space /\ ~colon /\ exists)
                  => event.result = Ok(Invalid(str_already_exists \o value))
            /\ event.result = Ok(Valid)
                  <=> (~empty /\ ~space /\ ~colon /\ ~exists)
            /\ (\A i \in 1..Len(event.input) : event.input[i] \in WhiteSpace)
                  => event.result = Ok(Invalid(str_may_not_be_empty))

NewValidatorReportsFirstFailureWitness ==
    /\ event.op = "new_username_validator"
    /\ event.input = in_a_sp_colon
    /\ event.result = Ok(Invalid(str_may_not_contain_space))

(* C7: a suggestion provider returns the candidates whose lowercase form   *)
(* contains the lowercase input, in the order and the case of the          *)
(* candidate list; it never fails and the empty input returns the whole    *)
(* list.                                                                   *)
SuggestionsAreTheMatchingCandidates ==
    event.op \in {"get_suggestions", "name_suggester"} =>
        LET candidates == IF event.op = "get_suggestions"
                          THEN <<str_adduser, str_help>>
                          ELSE usernames
            hits == {i \in 1..Len(candidates) :
                        contains(to_lowercase(candidates[i]),
                                 to_lowercase(event.input))}
            result == event.result[2]
        IN  /\ IsOk(event.result)
            /\ Len(result) = Cardinality(hits)
            /\ \A k \in 1..Len(result) :
                  \E i \in hits :
                      /\ Cardinality({j \in hits : j < i}) = k - 1
                      /\ result[k] = candidates[i]
            /\ event.input = <<>> => result = candidates
            /\ (/\ candidates = <<in_Alice, in_Bob, in_Nicole>>
                /\ event.input \in {in_ic, in_IC})
                  => result = <<in_Alice, in_Nicole>>

SuggestionsAreTheMatchingCandidatesWitness ==
    /\ event.op = "name_suggester"
    /\ usernames = <<in_Alice, in_Bob, in_Nicole>>
    /\ event.input = in_IC
    /\ event.result = Ok(<<in_Alice, in_Nicole>>)

(* C8: the snapshot of user names never changes during the session,        *)
(* whatever is prompted, validated, suggested or submitted.                *)
SnapshotNeverChanges == [][usernames' = usernames]_vars

SnapshotNeverChangesWitness ==
    \E i \in 1..Len(submitted) :
        /\ submitted[i].ok
        /\ submitted[i].transaction.from.account_type = "Source"
        /\ \A k \in 1..Len(usernames) :
              usernames[k] # submitted[i].transaction.to.name

(* C9: a name n added with success, not in the snapshot, stays unknown for *)
(* the rest of the session: the existing-username validator rejects n, so  *)
(* no payment from n is submitted, the name suggester never returns n, and *)
(* the new-username validator still accepts n.                             *)
AddedUserStaysUnknown ==
    \A i \in 1..Len(submitted) :
        LET n == submitted[i].transaction.to.name
        IN  (/\ submitted[i].ok
             /\ submitted[i].transaction.from.account_type = "Source")
            => /\ new_username_validator(n) = Ok(Valid)
               /\ (\A k \in 1..Len(usernames) : usernames[k] # n)
                  => /\ existing_username_validator(n) # Ok(Valid)
                     /\ \A p \in PartialInputs \cup {n} :
                           \A k \in 1..Len(name_suggester(p)[2]) :
                               name_suggester(p)[2][k] # n
                     /\ \A j \in (i + 1)..Len(submitted) :
                           submitted[j].transaction.from #
                               [account_type |-> "User", name |-> n]
                     /\ (/\ event.op = "existing_username_validator"
                         /\ event.input = n)
                           => event.result # Ok(Valid)
                     /\ event.op = "name_suggester"
                           => \A k \in 1..Len(event.result[2]) :
                                  event.result[2][k] # n

AddedUserStaysUnknownWitness ==
    \E i \in 1..Len(submitted) :
        /\ submitted[i].ok
        /\ submitted[i].transaction.from.account_type = "Source"
        /\ pc = "CounterpartyName"
        /\ event.op = "existing_username_validator"
        /\ event.input = submitted[i].transaction.to.name
        /\ event.result # Ok(Valid)

(* C10: a failure of create_transaction, in either branch, ends the        *)
(* session: the error leaves the loop, the submission is not repeated, no  *)
(* prompt follows, nothing more is submitted and no success message is     *)
(* shown.                                                                  *)
SubmitFailureIsFatal ==
    /\ [](\A i \in 1..Len(submitted) :
            ~submitted[i].ok =>
                /\ i = Len(submitted)
                /\ pc = "Exited"
                /\ error = Some("create_transaction")
                /\ \A k \in 1..Len(out) :
                      Len(out[k]) >= Len(str_Successfully_added)
                      => SubSeq(out[k], 1, Len(str_Successfully_added))
                             # str_Successfully_added)
    /\ [][pc = "Exited" => UNCHANGED vars]_vars

SubmitFailureIsFatalWitness ==
    /\ pc = "Exited"
    /\ submitted # <<>>
    /\ ~submitted[Len(submitted)].ok
    /\ submitted[Len(submitted)].transaction.from.account_type = "Source"

(* C11: the help command submits nothing, calls convert_amount not at all, *)
(* shows no name prompt, leaves the snapshot alone and leads back to the   *)
(* first prompt.                                                           *)
HelpBranchHasNoEffect ==
    [][(event'.op = "first_prompt" /\ event'.result = Ok("Help"))
       => /\ submitted' = submitted
          /\ convert_calls' = convert_calls
          /\ usernames' = usernames
          /\ pc' = "AwaitingFirstInput"
          /\ target' = None
          /\ amount' = None
          /\ error' = None
          /\ out' = <<str_Help>>]_vars

HelpBranchHasNoEffectWitness ==
    /\ event.op = "first_prompt"
    /\ event.input = str_help
    /\ event.result = Ok("Help")
    /\ pc = "AwaitingFirstInput"
    /\ out = <<str_Help>>

(* C12: while a name prompt gets input its validator finds Invalid, the    *)
(* flow stays at that prompt: the session goes on, nothing is submitted,   *)
(* and the flow neither advances nor returns to the first prompt; a        *)
(* validator always answers with an outcome.                               *)
ValidatorFailureKeepsThePrompt ==
    [][(event'.op \in {"new_username_validator",
                       "existing_username_validator"})
       => /\ IsOk(event'.result)
          /\ \/ event'.result[2] = Valid
             \/ /\ event'.result[2][1] = "Invalid"
                /\ pc \in {"AddUserName", "CounterpartyName"}
                /\ (pc = "AddUserName"
                      <=> event'.op = "new_username_validator")
                /\ pc' = pc
                /\ error' = None
                /\ submitted' = submitted
                /\ convert_calls' = convert_calls
                /\ target' = target
                /\ amount' = amount
                /\ out' = <<event'.result[2][2]>>]_vars

ValidatorFailureKeepsThePromptWitness ==
    /\ event.op = "existing_username_validator"
    /\ event.input = in_bob
    /\ event.result = Ok(Invalid(str_Not_known \o in_bob))
    /\ pc = "CounterpartyName"
    /\ error = None

(* C13: the command match comes first: a first input that is a command is  *)
(* never parsed as an amount, never followed by the counterparty prompt or *)
(* by a call of convert_amount in its iteration; the amount branch is      *)
(* entered only with an input that is no command.                          *)
CommandMatchComesFirst ==
    /\ [](/\ pc = "CounterpartyName" =>
                target # None /\ ~IsOk(try_from(target[1]))
          /\ amount # None =>
                target # None /\ ~IsOk(try_from(target[1]))
          /\ pc = "AddUserName" =>
                target # None /\ try_from(target[1]) = Ok("AddUser"))
    /\ [][/\ (event'.op = "first_prompt" /\ IsOk(event'.result))
             => /\ amount' = None
                /\ pc' \in {"AddUserName", "AwaitingFirstInput"}
                /\ error' = None
                /\ convert_calls' = convert_calls
          /\ pc = "AddUserName"
             => /\ pc' # "CounterpartyName"
                /\ amount' = None
                /\ convert_calls' = convert_calls
          /\ (event'.op = "first_prompt" /\ pc' = "CounterpartyName")
             => ~IsOk(event'.result)]_vars

CommandMatchComesFirstWitness ==
    /\ event.op = "first_prompt"
    /\ event.input = in_ADDUSER
    /\ event.result = Ok("AddUser")
    /\ pc = "AddUserName"
    /\ amount = None

(* C14: every submission comes, within one iteration, after the first      *)
(* prompt and after a name prompt whose last input was Valid; an iteration *)
(* submits at most once, and nothing is submitted at the first prompt or   *)
(* in the help branch.                                                     *)
SubmissionFollowsBothPrompts ==
    /\ [](pc = "AwaitingFirstInput" => target = None)
    /\ [][submitted' # submitted
          => /\ Len(submitted') = Len(submitted) + 1
             /\ SubSeq(submitted', 1, Len(submitted)) = submitted
             /\ pc \in {"AddUserName", "CounterpartyName"}
             /\ target # None
             /\ try_from(target[1]) # Ok("Help")
             /\ event'.op = (IF pc = "AddUserName"
                             THEN "new_username_validator"
                             ELSE "existing_username_validator")
             /\ event'.result = Ok(Valid)
             /\ pc' \in {"AwaitingFirstInput", "Exited"}
             /\ (pc' = "AwaitingFirstInput" => target' = None)]_vars

SubmissionFollowsBothPromptsWitness ==
    /\ Len(submitted) = 2
    /\ submitted[1].transaction.from.account_type = "Source"
    /\ submitted[2].transaction.from.account_type = "User"
    /\ event.op = "existing_username_validator"
    /\ event.result = Ok(Valid)
    /\ pc = "AwaitingFirstInput"

(* C15: convert_amount is called exactly once in an iteration whose first  *)
(* input parsed as a number and whose counterparty name was validated, and *)
(* not at all in a command iteration or in an iteration that fails before  *)
(* the name is accepted.                                                   *)
ConvertAmountCalledOncePerEntry ==
    /\ [](convert_calls =
             Cardinality({i \in 1..Len(submitted) :
                 submitted[i].transaction.from.account_type = "User"}))
    /\ [][/\ (/\ pc = "CounterpartyName"
              /\ event'.op = "existing_username_validator"
              /\ event'.result = Ok(Valid))
             => convert_calls' = convert_calls + 1
          /\ ~(/\ pc = "CounterpartyName"
               /\ event'.op = "existing_username_validator"
               /\ event'.result = Ok(Valid))
             => convert_calls' = convert_calls]_vars

ConvertAmountCalledOncePerEntryWitness ==
    /\ convert_calls = 1
    /\ Len(submitted) = 2
    /\ submitted[1].transaction.from.account_type = "User"
    /\ submitted[2].transaction.from.account_type = "Source"
    /\ pc = "AwaitingFirstInput"

(* C16: the classifier and the amount parse get the first input with the   *)
(* white space around it trimmed: " adduser " runs the add-user branch and *)
(* " 2.50 " is parsed as the amount 2.50.                                  *)
FirstInputIsTrimmed ==
    [][event'.op = "first_prompt"
       => LET trimmed == trim(event'.input)
          IN  /\ IsOk(event'.result) <=> IsOk(try_from(trimmed))
              /\ IsOk(event'.result) => event'.result = try_from(trimmed)
              /\ (~IsOk(try_from(trimmed)) /\ IsOk(parse_f32(trimmed)))
                    => /\ pc' = "CounterpartyName"
                       /\ amount' = Some(parse_f32(trimmed)[2])
              /\ event'.input = in_sp_adduser_sp => pc' = "AddUserName"
              /\ event'.input = in_sp_2_50_sp
                    => amount' = Some([kind |-> "num", neg |-> FALSE,
                                       m |-> 25, s |-> 1])]_vars

(* C18: every name the add-user branch submits, as User(name) and in the   *)
(* description, is non-empty, holds no space and no colon and is no entry  *)
(* of the snapshot: it is the value the validator checked, not an          *)
(* untrimmed form of it.                                                   *)
SubmittedNewNameObeysTheRules ==
    \A i \in 1..Len(submitted) :
        LET transaction == submitted[i].transaction
            name == transaction.to.name
        IN  transaction.from.account_type = "Source"
            => /\ name # <<>>
               /\ ~contains_char(name, " ")
               /\ ~contains_char(name, ":")
               /\ \A k \in 1..Len(usernames) : usernames[k] # name
               /\ name = trim(name)
               /\ transaction.description = Some(str_Create_user \o name)

(* C19: every string the name suggester returns is Valid for the           *)
(* existing-username validator, and every string the command suggester     *)
(* returns is a command for the classifier.                                *)
SuggestionsAreAccepted ==
    /\ event.op = "name_suggester"
       => \A k \in 1..Len(event.result[2]) :
              existing_username_validator(event.result[2][k]) = Ok(Valid)
    /\ event.op = "get_suggestions"
       => \A k \in 1..Len(event.result[2]) :
              /\ IsOk(try_from(event.result[2][k]))
              /\ into(try_from(event.result[2][k])[2]) = event.result[2][k]

SuggestionsAreAcceptedWitness ==
    /\ event.op = "name_suggester"
    /\ usernames = <<in_Alice, in_Bob, in_Nicole>>
    /\ event.input = in_ic
    /\ Len(event.result[2]) = 2

=============================================================================
